---- MODULE Spec2Model ----
(***************************************************************************)
(* A model of socat's SourceGenerator (src/socat/generator.py): the lazily *)
(* initialised position/flux interpolator, the lru_cache that wraps its    *)
(* at_time method, and the part of the record store it reads               *)
(* (moving_sources rows, get_ephem_points); the catalogue database with    *)
(* the create, get, update and delete calls of its four tables             *)
(* (src/socat/core); and the in-memory mock clients                        *)
(* (src/socat/client/mock.py).                                             *)
(*                                                                         *)
(* Numeric magnitudes stored in the catalogue are modelled as integers;    *)
(* an interpolated magnitude is an exact rational <<num, den>> in lowest   *)
(* terms with den > 0.  An optional value (Python's None) is a sequence of *)
(* length 0 or 1.                                                          *)
(***************************************************************************)
EXTENDS Integers, Sequences, FiniteSets, TLC

\* ---------------------------------------------------------------- bounds
\* Largest unix time used for ephemeris samples, windows and queries.
MaxTime == 2
\* Largest number of rows ever inserted in the moving_sources table.
MaxEphems == 2
\* Capacity of the lru_cache around at_time.  The source sets maxsize=128;
\* the model keeps the policy and scales the capacity down.
maxsize == 2

\* Largest number of rows the catalogue database holds at once, its four
\* tables taken together, and of entries the mock clients hold.
MaxRows == 2

Times == 0..MaxTime
\* The primary keys the catalogue calls are made with; a new row takes one
\* of them that its table does not use.
Ids == {1, 2}
\* Interpolator instances that a run may construct.
Gens == {1, 2}
\* Primary keys of the solar-system objects that own ephemeris rows.
SsoIds == {1}

None == <<>>
Some(v) == <<v>>

\* ------------------------------------------------------------- rationals
Abs(n) == IF n < 0 THEN -n ELSE n

RECURSIVE GCD(_, _)
GCD(a, b) == IF b = 0 THEN a ELSE GCD(b, a % b)

\* The rational n/d (d # 0) in lowest terms with a positive denominator.
Rat(n, d) ==
  LET g == GCD(Abs(n), Abs(d))
      s == IF d < 0 THEN -1 ELSE 1
  IN  <<(s * n) \div g, (s * d) \div g>>

RatInt(n) == <<n, 1>>

VARIABLES
  store,    \* the rows of the moving_sources table
  gen,      \* the SourceGenerator instances
  cache,    \* the lru_cache of at_time: entries, least recently used first
  last,     \* what the most recent SourceGenerator call did and gave back
  db,       \* the catalogue database: its four tables, with primary keys
  reply,    \* what the most recent call of the catalogue's core/API gave back
  mock      \* the mock clients: each one's catalog dictionary and counter n

vars == <<store, gen, cache, last, db, reply, mock>>

\* ---------------------------------------------------------- quantities
\* An astropy Quantity / Angle: a magnitude and the unit it is expressed in.
Q(v, u) == [value |-> v, unit |-> u]

\* Quantity.to_value("deg") for the angle units the inputs use.
ToDeg(q) == IF q.unit = "deg" THEN q.value ELSE q.value \div 60

\* Quantity.to_value("mJy") for the flux units the inputs use.
TomJy(q) == IF q.unit = "mJy" THEN q.value ELSE q.value * 1000

\* The (time, position, flux) triples create_ephem is called with: one
\* sample per time on a curved track, given in mixed units, and one sample
\* without a flux.
EphemInputs ==
  { [time |-> t,
     ra   |-> Q(t * t, "deg"),
     dec  |-> Q(60 * (t + 1), "arcmin"),
     flux |-> Some(IF t % 2 = 0 THEN Q(t * t * t + 2, "mJy") ELSE Q(t, "Jy"))]
    : t \in Times }
  \cup { [time |-> 1, ra |-> Q(2, "deg"), dec |-> Q(2, "deg"), flux |-> None] }

\* ------------------------------------------------------- record store
\* The moving_sources table is the set of its rows.  A row is kept without
\* its primary key ephem_id, which nothing that reads the rows here looks at;
\* the calls of create_ephem that a run makes are pairwise different.

\* RegisteredMovingSourceTable.to_model: the row as a RegisteredMovingSource,
\* position in degrees and flux (when there is one) in mJy.
to_model(row) ==
  [ sso_id |-> row.sso_id,
    time   |-> row.time,
    ra     |-> Q(row.ra_deg, "deg"),
    dec    |-> Q(row.dec_deg, "deg"),
    flux   |-> IF row.flux_mJy = None THEN None
               ELSE Some(Q(row.flux_mJy[1], "mJy")) ]

\* InWindow with the window open at its lower end.
InWindow_exclusive(row, sso_id, t_min, t_max) ==
  /\ t_min < row.time
  /\ row.time <= t_max
  /\ sso_id = row.sso_id

\* The rows the WHERE clause of get_ephem_points keeps.
InWindow(row, sso_id, t_min, t_max) ==
  /\ t_min <= row.time
  /\ row.time <= t_max
  /\ sso_id = row.sso_id

\* The orders in which a SELECT without ORDER BY may yield the rows of S.
Orderings(S) ==
  { f \in [1..Cardinality(S) -> S] :
      \A i, j \in 1..Cardinality(S) : i # j => f[i] # f[j] }

\* get_ephem_points: the lists it may return, the selected rows in an order
\* the database chooses, each converted with to_model.
get_ephem_points(rows, sso_id, t_min, t_max) ==
  { [i \in 1..Len(f) |-> to_model(f[i])] :
      f \in Orderings({ r \in rows : InWindow(r, sso_id, t_min, t_max) }) }

\* The row create_ephem inserts, its magnitudes converted to deg and mJy.
NewRow(sso_id, sky) ==
  [ sso_id   |-> sso_id,
    time     |-> sky.time,
    ra_deg   |-> ToDeg(sky.ra),
    dec_deg  |-> ToDeg(sky.dec),
    flux_mJy |-> IF sky.flux = None THEN None
                 ELSE Some(TomJy(sky.flux[1])) ]

\* create_ephem
CreateEphem(sso_id, sky) ==
  /\ Cardinality(store) < MaxEphems
  /\ NewRow(sso_id, sky) \notin store
  /\ store' = store \cup { NewRow(sso_id, sky) }
  /\ UNCHANGED <<gen, cache, last, db, reply, mock>>

\* ------------------------------------------------------ source objects
\* What a SourceGenerator is constructed on.  `type` is type(source); a
\* SolarSystemTable is a row object, a subclass of SolarSystemSource.
FixedSource(ra, dec, flux) ==
  [type |-> "ExtragalacticSource", sso_id |-> 0,
   position |-> Some([ra |-> ra, dec |-> dec]), flux |-> flux]

MovingSource(type, sso_id) ==
  [type |-> type, sso_id |-> sso_id, position |-> None, flux |-> None]

Sources ==
  { FixedSource(Q(3, "rad"), Q(1, "deg"), Some(Q(15, "Jy"))),
    FixedSource(Q(1, "deg"), Q(2, "deg"), None) }
  \cup { MovingSource("SolarSystemSource", s) : s \in SsoIds }
  \cup { MovingSource("SolarSystemTable", s) : s \in SsoIds }

\* ------------------------------------------------------- interpolants
NoInterp == [f |-> "None", t |-> <<>>, c |-> <<>>]

\* The closure installed for a fixed source; it reads self.source when called.
Lambda == [f |-> "lambda", t |-> <<>>, c |-> <<>>]

\* x does not pass make_interp_spline's check "no duplicates, increasing".
BadAbscissae(x) ==
  \E i \in 1..(Len(x) - 1) : x[i + 1] <= x[i]

\* make_interp_spline(x, y, k=1) on accepted x: the degree-1 B-spline with
\* knots x[0], x[0], ..., x[n-1], x[n-1] and the samples y as coefficients.
make_interp_spline(x, y) ==
  [f |-> "BSpline", t |-> <<x[1]>> \o x \o <<x[Len(x)]>>, c |-> y]

\* find_interval of the spline evaluation, for degree k: the index l
\* (0-based, as in the library) of the knot interval used for xval; outside
\* the knots the first or the last interval is used (extrapolation).
\* tk is the knot vector, 1-based here, so knot j of the library is tk[j+1].
RECURSIVE Climb(_, _, _, _)
Climb(tk, xval, l, n) ==
  IF xval >= tk[l + 1] /\ l # n THEN Climb(tk, xval, l + 1, n) ELSE l

find_interval(tk, k, xval) ==
  LET n == Len(tk) - k - 1
  IN  Climb(tk, xval, k + 1, n) - 1

\* deBoor with the two weights exchanged.
deBoor_swapped(tk, c0, c1, l, xval) ==
  LET xa == tk[l + 1]
      xb == tk[l + 2]
  IN  Rat(c1 * (xb - xval) + c0 * (xval - xa), xb - xa)

\* One channel of the degree-1 de Boor evaluation on interval l.
deBoor(tk, c0, c1, l, xval) ==
  LET xa == tk[l + 1]
      xb == tk[l + 2]
  IN  Rat(c0 * (xb - xval) + c1 * (xval - xa), xb - xa)

\* BSpline.__call__ for a spline built from two or more samples: the raw
\* (ra, dec, flux) magnitudes at xval.
evaluate_spline(interp, xval) ==
  LET l  == find_interval(interp.t, 1, xval)
      lo == interp.c[l]
      hi == interp.c[l + 1]
  IN  [ra   |-> deBoor(interp.t, lo.ra, hi.ra, l, xval),
       dec  |-> deBoor(interp.t, lo.dec, hi.dec, l, xval),
       flux |-> deBoor(interp.t, lo.flux, hi.flux, l, xval)]

\* A spline built from a single sample has three equal knots and one
\* coefficient: its evaluation reads past the coefficient array, and what
\* comes back is not defined.  These are the raw outcomes the model allows.
Undefined(interp) ==
  { [ra |-> RatInt(0), dec |-> RatInt(0), flux |-> RatInt(0)],
    [ra   |-> RatInt(interp.c[1].ra),
     dec  |-> RatInt(interp.c[1].dec),
     flux |-> RatInt(interp.c[1].flux)] }

\* self.interp(t): the set of raw magnitudes the installed function may give.
interp_call(self, t) ==
  IF self.interp.f = "lambda"
  THEN { [ra   |-> RatInt(self.source.position[1].ra.value),
          dec  |-> RatInt(self.source.position[1].dec.value),
          flux |-> RatInt(self.source.flux[1].value)] }
  ELSE IF Len(self.interp.c) < 2
       THEN Undefined(self.interp)
       ELSE { evaluate_spline(self.interp, t) }

\* ----------------------------------------------------- SourceGenerator
\* __init__ storing the two bounds in each other's attribute.
init_swapped(source, t_min, t_max) ==
  [made |-> TRUE, source |-> source, t_min |-> t_max, t_max |-> t_min,
   interp |-> NoInterp, ra_unit |-> "unset", dec_unit |-> "unset",
   flux_unit |-> "unset", pc |-> "idle", ephems |-> <<>>, inits |-> 0,
   returned |-> FALSE]

\* SourceGenerator.__init__: the attributes of a fresh instance.  Beside the
\* attributes the class has, the record keeps what is known of the
\* instance's init_interp calls: `pc`, where a running one stands; `ephems`,
\* the list of samples the installed spline was built from; `inits`, how
\* many have ended (2 stands for two or more); `returned`, whether one of
\* them ended without raising.
__init__(source, t_min, t_max) ==
  [made |-> TRUE, source |-> source, t_min |-> t_min, t_max |-> t_max,
   interp |-> NoInterp, ra_unit |-> "unset", dec_unit |-> "unset",
   flux_unit |-> "unset", pc |-> "idle", ephems |-> <<>>, inits |-> 0,
   returned |-> FALSE]

\* A slot no instance has been constructed in yet.
NoGen == [__init__(MovingSource("None", 0), 0, 0) EXCEPT !.made = FALSE]

\* What a call gave back: how it ended and, when it returned a value, the value.
Outcome(how, value) == [how |-> how, value |-> value]

\* The record of a finished call in `last`.  given: the arguments of a
\* constructor call; evaluated: the call ran self.interp; fetches: the
\* get_ephem_points calls it issued; fetched: the list such a call delivered;
\* evicted: the key of the cache entry the call made lru_cache drop.
Call(op, g, t, form, given, out, evaluated, fetches, fetched) ==
  [op |-> op, g |-> g, t |-> t, form |-> form, given |-> given,
   how |-> out.how, value |-> out.value, evaluated |-> evaluated,
   fetches |-> fetches, fetched |-> fetched, evicted |-> None]

NoCall ==
  Call("none", 0, 0, "none", None, Outcome("none", None), FALSE, 0, None)

\* An init_interp call of self has ended, returning or raising.
Ended(self, how) ==
  [self EXCEPT !.inits = IF self.inits < 2 THEN self.inits + 1 ELSE 2,
               !.returned = self.returned \/ how = "return",
               !.pc = "idle"]

\* init_fixed taking ra_unit from the declination.
init_fixed_dec_unit(self) ==
  LET pos == self.source.position[1]
      s1  == [self EXCEPT !.ra_unit = pos.dec.unit, !.dec_unit = pos.dec.unit]
  IN  IF self.source.flux = None
      THEN [self |-> s1, how |-> "AttributeError"]
      ELSE [self |-> [s1 EXCEPT !.flux_unit = self.source.flux[1].unit,
                                !.interp = Lambda],
            how |-> "return"]

\* init_fixed moving t_min up to t_max.
init_fixed_narrowing(self) ==
  LET pos == self.source.position[1]
      s1  == [self EXCEPT !.ra_unit = pos.ra.unit, !.dec_unit = pos.dec.unit,
                          !.t_min = self.t_max]
  IN  IF self.source.flux = None
      THEN [self |-> s1, how |-> "AttributeError"]
      ELSE [self |-> [s1 EXCEPT !.flux_unit = self.source.flux[1].unit,
                                !.interp = Lambda],
            how |-> "return"]

\* init_interp, branch `type(self.source) is ExtragalacticSource`: the
\* instance afterwards and how the call ended.
init_fixed(self) ==
  LET pos == self.source.position[1]
      s1  == [self EXCEPT !.ra_unit = pos.ra.unit, !.dec_unit = pos.dec.unit]
  IN  IF self.source.flux = None
      THEN [self |-> s1, how |-> "AttributeError"]
      ELSE [self |-> [s1 EXCEPT !.flux_unit = self.source.flux[1].unit,
                                !.interp = Lambda],
            how |-> "return"]

\* init_moving clearing self.interp before it builds the spline, so that a
\* rejected list of samples leaves no interpolation function.
init_moving_clearing(self, ephems) ==
  LET n  == Len(ephems)
      x  == [i \in 1..n |-> ephems[i].time]
      y  == [i \in 1..n |-> [ra   |-> ephems[i].ra.value,
                             dec  |-> ephems[i].dec.value,
                             flux |-> ephems[i].flux[1].value]]
      s1 == [self EXCEPT !.ra_unit = ephems[n].ra.unit,
                         !.dec_unit = ephems[n].dec.unit,
                         !.flux_unit = ephems[n].flux[1].unit]
  IN  IF \E i \in 1..n : ephems[i].flux = None
      THEN [self |-> self, how |-> "AttributeError"]
      ELSE IF n = 0
      THEN [self |-> self, how |-> "UnboundLocalError"]
      ELSE IF BadAbscissae(x)
      THEN [self |-> [s1 EXCEPT !.interp = NoInterp], how |-> "ValueError"]
      ELSE [self |-> [s1 EXCEPT !.interp = make_interp_spline(x, y),
                                !.ephems = ephems],
            how |-> "return"]

\* init_moving capturing the unit of ra from the first sample's flux.
init_moving_flux_unit(self, ephems) ==
  LET n  == Len(ephems)
      x  == [i \in 1..n |-> ephems[i].time]
      y  == [i \in 1..n |-> [ra   |-> ephems[i].ra.value,
                             dec  |-> ephems[i].dec.value,
                             flux |-> ephems[i].flux[1].value]]
      s1 == [self EXCEPT !.ra_unit = ephems[1].flux[1].unit,
                         !.dec_unit = ephems[n].dec.unit,
                         !.flux_unit = ephems[n].flux[1].unit]
  IN  IF \E i \in 1..n : ephems[i].flux = None
      THEN [self |-> self, how |-> "AttributeError"]
      ELSE IF n = 0
      THEN [self |-> self, how |-> "UnboundLocalError"]
      ELSE IF BadAbscissae(x)
      THEN [self |-> s1, how |-> "ValueError"]
      ELSE [self |-> [s1 EXCEPT !.interp = make_interp_spline(x, y),
                                !.ephems = ephems],
            how |-> "return"]

\* init_interp, branch `type(self.source) is SolarSystemSource`, from the
\* point where get_ephem_points has delivered ephems: the arrays x and y are
\* filled, the units are taken from the loop variable left by the loop, and
\* the spline is built.
init_moving(self, ephems) ==
  LET n  == Len(ephems)
      x  == [i \in 1..n |-> ephems[i].time]
      y  == [i \in 1..n |-> [ra   |-> ephems[i].ra.value,
                             dec  |-> ephems[i].dec.value,
                             flux |-> ephems[i].flux[1].value]]
      s1 == [self EXCEPT !.ra_unit = ephems[n].ra.unit,
                         !.dec_unit = ephems[n].dec.unit,
                         !.flux_unit = ephems[n].flux[1].unit]
  IN  IF \E i \in 1..n : ephems[i].flux = None
      THEN [self |-> self, how |-> "AttributeError"]
      ELSE IF n = 0
      THEN [self |-> self, how |-> "UnboundLocalError"]
      ELSE IF BadAbscissae(x)
      THEN [self |-> s1, how |-> "ValueError"]
      ELSE [self |-> [s1 EXCEPT !.interp = make_interp_spline(x, y),
                                !.ephems = ephems],
            how |-> "return"]

\* init_interp catching the error of the fetch and raising one of its own.
init_fetch_translated(self, error) == [self |-> self, how |-> "RuntimeError"]

\* init_interp, moving branch, when the awaited get_ephem_points raises
\* `error`: no handler surrounds the call, so the error leaves init_interp
\* before any attribute is assigned.
init_fetch_failed(self, error) == [self |-> self, how |-> error]

\* The range test with both ends excluded.
OutOfBounds_exclusive(self, t) == t <= self.t_min \/ self.t_max <= t

\* The range test of at_time.
OutOfBounds(self, t) == t < self.t_min \/ self.t_max < t

\* at_time without the test for the interpolation function: calling the
\* None that stands in its place raises TypeError, after the range test.
at_time_unchecked(self, t) ==
  IF OutOfBounds(self, t)
  THEN { Outcome("ValueError", None) }
  ELSE IF self.interp = NoInterp
  THEN { Outcome("TypeError", None) }
  ELSE { Outcome("return",
                 Some([ra   |-> Q(raw.ra, self.ra_unit),
                       dec  |-> Q(raw.dec, self.dec_unit),
                       flux |-> Q(raw.flux, self.flux_unit)]))
         : raw \in interp_call(self, t) }

\* at_time testing the range before it tests for the interpolation function.
at_time_range_first(self, t) ==
  IF OutOfBounds(self, t)
  THEN { Outcome("ValueError", None) }
  ELSE IF self.interp = NoInterp
  THEN { Outcome("RuntimeError", None) }
  ELSE { Outcome("return",
                 Some([ra   |-> Q(raw.ra, self.ra_unit),
                       dec  |-> Q(raw.dec, self.dec_unit),
                       flux |-> Q(raw.flux, self.flux_unit)]))
         : raw \in interp_call(self, t) }

\* The body of at_time (what runs on a cache miss): the outcomes it may have.
at_time(self, t) ==
  IF self.interp = NoInterp
  THEN { Outcome("RuntimeError", None) }
  ELSE IF OutOfBounds(self, t)
  THEN { Outcome("ValueError", None) }
  ELSE { Outcome("return",
                 Some([ra   |-> Q(raw.ra, self.ra_unit),
                       dec  |-> Q(raw.dec, self.dec_unit),
                       flux |-> Q(raw.flux, self.flux_unit)]))
         : raw \in interp_call(self, t) }

\* ------------------------------------------------------------ lru_cache
\* The ways a caller passes the time: at_time(5) or at_time(t=5).
CallForms == {"positional", "keyword"}

\* Times at_time is asked for.
QueryTimes == Times

\* make_key leaving the instance out of the key.
make_key_without_self(g, t, form) == <<0, form, t>>

\* The key lru_cache makes of a call: the instance, the argument and the
\* way the argument was passed.
make_key(g, t, form) == <<g, form, t>>

\* Position of key in the cache, 0 when it is not there.
CacheIndex(c, key) ==
  IF \E i \in 1..Len(c) : c[i].key = key
  THEN CHOOSE i \in 1..Len(c) : c[i].key = key
  ELSE 0

\* A hit makes the entry the most recently used one.
CacheTouch(c, i) ==
  [j \in 1..Len(c) |->
     IF j < i THEN c[j] ELSE IF j < Len(c) THEN c[j + 1] ELSE c[i]]

\* CacheStore dropping the most recently used entry of a full cache.
CacheStore_mru(c, key, value) ==
  LET e == [key |-> key, value |-> value]
  IN  IF Len(c) >= maxsize
      THEN Append(SubSeq(c, 1, Len(c) - 1), e)
      ELSE Append(c, e)

\* A miss stores the result; a full cache drops its least recently used entry.
CacheStore(c, key, value) ==
  LET e == [key |-> key, value |-> value]
  IN  IF Len(c) >= maxsize THEN Append(Tail(c), e) ELSE Append(c, e)

\* -------------------------------------------------------------- actions
\* SourceGenerator(source, t_min, t_max)
Construct(g, source, t_min, t_max) ==
  /\ ~gen[g].made
  /\ gen' = [gen EXCEPT ![g] = __init__(source, t_min, t_max)]
  /\ last' = Call("__init__", g, 0, "none",
                  Some([source |-> source, t_min |-> t_min, t_max |-> t_max]),
                  Outcome("return", None), FALSE, 0, None)
  /\ UNCHANGED <<store, cache, db, reply, mock>>

\* init_interp on a fixed source runs to its end without suspending.
InitInterpFixed(g) ==
  /\ gen[g].made /\ gen[g].pc = "idle"
  /\ gen[g].source.type = "ExtragalacticSource"
  /\ LET r == init_fixed(gen[g])
     IN  /\ gen' = [gen EXCEPT ![g] = Ended(r.self, r.how)]
         /\ last' = Call("init_interp", g, 0, "none", None,
                         Outcome(r.how, None), FALSE, 0, None)
  /\ UNCHANGED <<store, cache, db, reply, mock>>

\* init_interp on a source of neither type matches no branch and returns.
InitInterpOther(g) ==
  /\ gen[g].made /\ gen[g].pc = "idle"
  /\ gen[g].source.type \notin {"ExtragalacticSource", "SolarSystemSource"}
  /\ gen' = [gen EXCEPT ![g] = Ended(gen[g], "return")]
  /\ last' = Call("init_interp", g, 0, "none", None,
                  Outcome("return", None), FALSE, 0, None)
  /\ UNCHANGED <<store, cache, db, reply, mock>>

\* init_interp on a moving source calls get_ephem_points and suspends.
InitInterpAwait(g) ==
  /\ gen[g].made /\ gen[g].pc = "idle"
  /\ gen[g].source.type = "SolarSystemSource"
  /\ gen' = [gen EXCEPT ![g].pc = "await"]
  /\ UNCHANGED <<store, cache, last, db, reply, mock>>

\* The fetch delivers the rows and init_interp runs to its end.
InitInterpResume(g) ==
  /\ gen[g].pc = "await"
  /\ \E ephems \in get_ephem_points(store, gen[g].source.sso_id,
                                     gen[g].t_min, gen[g].t_max) :
       LET r == init_moving(gen[g], ephems)
       IN  /\ gen' = [gen EXCEPT ![g] = Ended(r.self, r.how)]
           /\ last' = Call("init_interp", g, 0, "none", None,
                           Outcome(r.how, None), FALSE, 1, Some(ephems))
  /\ UNCHANGED <<store, cache, db, reply, mock>>

\* The fetch fails: the error of the store leaves init_interp as it is.
InitInterpFetchFails(g) ==
  /\ gen[g].pc = "await"
  /\ LET r == init_fetch_failed(gen[g], "StoreError")
     IN  /\ gen' = [gen EXCEPT ![g] = Ended(r.self, r.how)]
         /\ last' = Call("init_interp", g, 0, "none", None,
                         Outcome(r.how, None), FALSE, 1, None)
  /\ UNCHANGED <<store, cache, db, reply, mock>>

\* AtTime with a cache that also stores what a raising call gave.
AtTime_storing_errors(g, t, form) ==
  /\ gen[g].made
  /\ LET key == make_key(g, t, form)
         i   == CacheIndex(cache, key)
     IN  IF i # 0
         THEN /\ cache' = CacheTouch(cache, i)
              /\ last' = Call("at_time", g, t, form, None,
                              Outcome("return", cache[i].value), FALSE, 0,
                              None)
         ELSE \E out \in at_time(gen[g], t) :
                /\ cache' = CacheStore(cache, key, out.value)
                /\ last' = Call("at_time", g, t, form, None, out,
                                out.how = "return", 0, None)
  /\ UNCHANGED <<store, gen, db, reply, mock>>

\* gen.at_time(t) through lru_cache: a hit returns the stored result, a miss
\* runs the body and stores what it returns (an exception stores nothing).
AtTime(g, t, form) ==
  /\ gen[g].made
  /\ LET key == make_key(g, t, form)
         i   == CacheIndex(cache, key)
     IN  IF i # 0
         THEN /\ cache' = CacheTouch(cache, i)
              /\ last' = Call("at_time", g, t, form, None,
                              Outcome("return", cache[i].value), FALSE, 0,
                              None)
         ELSE \E out \in at_time(gen[g], t) :
                /\ cache' = IF out.how = "return"
                            THEN CacheStore(cache, key, out.value)
                            ELSE cache
                /\ last' = [Call("at_time", g, t, form, None, out,
                                 out.how = "return", 0, None)
                             EXCEPT !.evicted =
                               IF out.how = "return" /\ Len(cache) >= maxsize
                               THEN Some(cache[1].key) ELSE None]
  /\ UNCHANGED <<store, gen, db, reply, mock>>

\* --------------------------------------------------- catalogue database
\* The four tables, each a set of rows with its primary key.  moving_sources
\* is the table that `store` holds without keys.  foreign_keys tells whether
\* the database enforces the declared foreign keys (SQLite does only when
\* asked to, PostgreSQL always).  deleted and given record the history of
\* the fixed_sources keys: the keys deleted and not created again, and for a
\* row not updated since its creation the arguments it was created with.
EmptyDb(enforce) ==
  [fixed |-> {}, sso |-> {}, ephem |-> {}, service |-> {},
   foreign_keys |-> enforce, deleted |-> {}, given |-> {}]

TotalRows(d) ==
  Cardinality(d.fixed) + Cardinality(d.sso) + Cardinality(d.ephem)
    + Cardinality(d.service)

\* session.get(Table, id): the row with this primary key, or None.
session_get(rows, pk, id) ==
  LET hit == { r \in rows : r[pk] = id }
  IN  IF hit = {} THEN None ELSE Some(CHOOSE r \in hit : TRUE)

\* http_status of a router that handles no error of the core call.
http_status_unhandled(how) == IF how = "return" THEN 200 ELSE 500

\* The HTTP status the API router answers with, for how the core call ended.
\* The get, update and delete routes turn ValueError into 404; an error no
\* route handles is a 500.
http_status(how) ==
  IF how = "return" THEN 200 ELSE IF how = "ValueError" THEN 404 ELSE 500

\* The record of a finished catalogue call in `reply`.
Reply(op, id, out) ==
  [op |-> op, id |-> id, how |-> out.how, value |-> out.value,
   status |-> http_status(out.how)]

NoReply == Reply("none", 0, Outcome("none", None))

\* ---- fixed_sources
\* RegisteredFixedSourceTable.to_model
fixed_to_model(row) ==
  [ source_id |-> row.source_id,
    position  |-> [ra |-> Q(row.ra_deg, "deg"), dec |-> Q(row.dec_deg, "deg")],
    flux      |-> IF row.flux_mJy = None THEN None
                  ELSE Some(Q(row.flux_mJy[1], "mJy")),
    name      |-> row.name ]

\* create_source; id is the key the database assigns to the new row.
create_source(d, id, position, name, flux) ==
  LET row == [ source_id |-> id,
               ra_deg    |-> ToDeg(position.ra),
               dec_deg   |-> ToDeg(position.dec),
               name      |-> name,
               flux_mJy  |-> IF flux = None THEN None
                             ELSE Some(TomJy(flux[1])) ]
  IN  [db  |-> [d EXCEPT !.fixed = @ \cup {row}],
       out |-> Outcome("return", Some(fixed_to_model(row)))]

get_source(d, source_id) ==
  LET source == session_get(d.fixed, "source_id", source_id)
  IN  IF source = None
      THEN [db |-> d, out |-> Outcome("ValueError", None)]
      ELSE [db |-> d, out |-> Outcome("return", Some(fixed_to_model(source[1])))]

\* update_source: position.ra is read whatever position is, so a position
\* of None ends the call with AttributeError and the transaction is undone.
update_source(d, source_id, position, flux, name) ==
  LET source == session_get(d.fixed, "source_id", source_id)
  IN  IF source = None
      THEN [db |-> d, out |-> Outcome("ValueError", None)]
      ELSE IF position = None
      THEN [db |-> d, out |-> Outcome("AttributeError", None)]
      ELSE LET new == [ source[1] EXCEPT
                          !.ra_deg   = ToDeg(position[1].ra),
                          !.dec_deg  = ToDeg(position[1].dec),
                          !.flux_mJy = IF flux # None
                                       THEN Some(TomJy(flux[1])) ELSE @,
                          !.name     = IF name # None THEN name ELSE @ ]
           IN  [db  |-> [d EXCEPT !.fixed = (@ \ {source[1]}) \cup {new}],
                out |-> Outcome("return", Some(fixed_to_model(new)))]

\* delete_source that reports success and leaves the row in the table.
delete_source_kept(d, source_id) ==
  LET source == session_get(d.fixed, "source_id", source_id)
  IN  IF source = None
      THEN [db |-> d, out |-> Outcome("ValueError", None)]
      ELSE [db |-> d, out |-> Outcome("return", None)]

delete_source(d, source_id) ==
  LET source == session_get(d.fixed, "source_id", source_id)
  IN  IF source = None
      THEN [db |-> d, out |-> Outcome("ValueError", None)]
      ELSE [db  |-> [d EXCEPT !.fixed = @ \ {source[1]}],
            out |-> Outcome("return", None)]

\* The arguments create_source and update_source are called with.
SourceInputs ==
  { [position |-> [ra |-> Q(120, "arcmin"), dec |-> Q(1, "deg")],
     flux |-> Some(Q(2, "Jy")), name |-> Some("3C 273")],
    [position |-> [ra |-> Q(3, "deg"), dec |-> Q(4, "deg")],
     flux |-> None, name |-> None] }

SourceUpdates ==
  { [position |-> Some([ra |-> Q(5, "deg"), dec |-> Q(360, "arcmin")]),
     flux |-> None, name |-> Some("M87")],
    [position |-> None, flux |-> Some(Q(7, "mJy")), name |-> None] }

CreateSource(id, args) ==
  /\ TotalRows(db) < MaxRows
  /\ session_get(db.fixed, "source_id", id) = None
  /\ LET r == create_source(db, id, args.position, args.name, args.flux)
     IN  /\ db' = [r.db EXCEPT
                     !.deleted = @ \ {id},
                     !.given   = @ \cup {[source_id |-> id, args |-> args]}]
         /\ reply' = Reply("create_source", id, r.out)
  /\ UNCHANGED <<store, gen, cache, last, mock>>

GetSource(id) ==
  /\ LET r == get_source(db, id)
     IN  db' = r.db /\ reply' = Reply("get_source", id, r.out)
  /\ UNCHANGED <<store, gen, cache, last, mock>>

UpdateSource(id, args) ==
  /\ LET r == update_source(db, id, args.position, args.flux, args.name)
     IN  /\ db' = [r.db EXCEPT
                     !.given = IF r.out.how = "return"
                               THEN { c \in @ : c.source_id # id } ELSE @]
         /\ reply' = Reply("update_source", id, r.out)
  /\ UNCHANGED <<store, gen, cache, last, mock>>

DeleteSource(id) ==
  /\ LET r == delete_source(db, id)
     IN  /\ db' = IF r.out.how = "return"
                  THEN [r.db EXCEPT
                          !.deleted = @ \cup {id},
                          !.given   = { c \in @ : c.source_id # id }]
                  ELSE r.db
         /\ reply' = Reply("delete_source", id, r.out)
  /\ UNCHANGED <<store, gen, cache, last, mock>>

\* ---- solarsystem_objects
\* SolarSystemObjectTable.to_model
sso_to_model(row) ==
  [sso_id |-> row.sso_id, MPC_id |-> row.MPC_id, name |-> row.name]

\* name and MPC_id are declared unique: another row has this name, or this
\* (not null) MPC_id.
SsoClash(rows, name, MPC_id) ==
  \E r \in rows : r.name = name \/ (MPC_id # None /\ r.MPC_id = MPC_id)

\* The three foreign keys of moving_sources: row e refers to the
\* solarsystem_objects row o by sso_id, by MPC_id or by name.
RefersTo(e, o) ==
  \/ e.sso_id = o.sso_id
  \/ (e.MPC_id # None /\ e.MPC_id = o.MPC_id)
  \/ e.name = o.name

\* A database that enforces foreign keys refuses to change a name or an
\* MPC_id that a moving_sources row refers to (no ON UPDATE action is
\* declared).
Orphaning(d, old, new) ==
  /\ d.foreign_keys
  /\ \E e \in d.ephem :
       \/ (e.name = old.name /\ new.name # old.name)
       \/ (e.MPC_id # None /\ e.MPC_id = old.MPC_id /\ new.MPC_id # old.MPC_id)

\* create_sso; id is the key the database assigns to the new row.
create_sso(d, id, name, MPC_id) ==
  LET row == [sso_id |-> id, MPC_id |-> MPC_id, name |-> name]
  IN  IF SsoClash(d.sso, name, MPC_id)
      THEN [db |-> d, out |-> Outcome("IntegrityError", None)]
      ELSE [db  |-> [d EXCEPT !.sso = @ \cup {row}],
            out |-> Outcome("return", Some(sso_to_model(row)))]

get_sso(d, sso_id) ==
  LET source == session_get(d.sso, "sso_id", sso_id)
  IN  IF source = None
      THEN [db |-> d, out |-> Outcome("ValueError", None)]
      ELSE [db |-> d, out |-> Outcome("return", Some(sso_to_model(source[1])))]

update_sso(d, sso_id, name, MPC_id) ==
  LET source == session_get(d.sso, "sso_id", sso_id)
  IN  IF source = None
      THEN [db |-> d, out |-> Outcome("ValueError", None)]
      ELSE LET new == [ source[1] EXCEPT
                          !.name   = IF name # None THEN name[1] ELSE @,
                          !.MPC_id = IF MPC_id # None THEN MPC_id ELSE @ ]
           IN  IF \/ SsoClash(d.sso \ {source[1]}, new.name, new.MPC_id)
                  \/ Orphaning(d, source[1], new)
               THEN [db |-> d, out |-> Outcome("IntegrityError", None)]
               ELSE [db  |-> [d EXCEPT !.sso = (@ \ {source[1]}) \cup {new}],
                     out |-> Outcome("return", Some(sso_to_model(new)))]

\* delete_sso deletes the object's row.  The rows of moving_sources that
\* refer to it are declared ON DELETE CASCADE: the database deletes them
\* with it when it enforces foreign keys, and leaves them when it does not.
delete_sso(d, sso_id) ==
  LET source == session_get(d.sso, "sso_id", sso_id)
  IN  IF source = None
      THEN [db |-> d, out |-> Outcome("ValueError", None)]
      ELSE [db  |-> [d EXCEPT
                       !.sso   = @ \ {source[1]},
                       !.ephem = IF d.foreign_keys
                                 THEN { e \in @ : ~RefersTo(e, source[1]) }
                                 ELSE @],
            out |-> Outcome("return", None)]

SsoInputs ==
  { [name |-> "Davida", MPC_id |-> Some(511)],
    [name |-> "Ceres", MPC_id |-> None] }

SsoUpdates == { [name |-> Some("Diotima"), MPC_id |-> Some(423)] }

CreateSso(id, args) ==
  /\ TotalRows(db) < MaxRows
  /\ session_get(db.sso, "sso_id", id) = None
  /\ LET r == create_sso(db, id, args.name, args.MPC_id)
     IN  db' = r.db /\ reply' = Reply("create_sso", id, r.out)
  /\ UNCHANGED <<store, gen, cache, last, mock>>

GetSso(id) ==
  /\ LET r == get_sso(db, id)
     IN  db' = r.db /\ reply' = Reply("get_sso", id, r.out)
  /\ UNCHANGED <<store, gen, cache, last, mock>>

UpdateSso(id, args) ==
  /\ LET r == update_sso(db, id, args.name, args.MPC_id)
     IN  db' = r.db /\ reply' = Reply("update_sso", id, r.out)
  /\ UNCHANGED <<store, gen, cache, last, mock>>

DeleteSso(id) ==
  /\ LET r == delete_sso(db, id)
     IN  db' = r.db /\ reply' = Reply("delete_sso", id, r.out)
  /\ UNCHANGED <<store, gen, cache, last, mock>>

\* ---- moving_sources
\* The row create_ephem inserts, with the key the database assigns to it.
NewKeyedRow(id, sso_id, MPC_id, name, sky) ==
  [ ephem_id |-> id,
    sso_id   |-> sso_id,
    MPC_id   |-> MPC_id,
    name     |-> name,
    time     |-> sky.time,
    ra_deg   |-> ToDeg(sky.ra),
    dec_deg  |-> ToDeg(sky.dec),
    flux_mJy |-> IF sky.flux = None THEN None
                 ELSE Some(TomJy(sky.flux[1])) ]

\* RegisteredMovingSourceTable.to_model, primary key and names included.
ephem_to_model(row) ==
  [ ephem_id |-> row.ephem_id,
    sso_id   |-> row.sso_id,
    MPC_id   |-> row.MPC_id,
    name     |-> row.name,
    time     |-> row.time,
    ra       |-> Q(row.ra_deg, "deg"),
    dec      |-> Q(row.dec_deg, "deg"),
    flux     |-> IF row.flux_mJy = None THEN None
                 ELSE Some(Q(row.flux_mJy[1], "mJy")) ]

\* A row one of whose foreign keys matches no solarsystem_objects row is
\* refused by a database that enforces foreign keys.
Dangling(d, e) ==
  /\ d.foreign_keys
  /\ \/ \A o \in d.sso : e.sso_id # o.sso_id
     \/ (e.MPC_id # None /\ \A o \in d.sso : e.MPC_id # o.MPC_id)
     \/ \A o \in d.sso : e.name # o.name

create_ephem(d, id, sso_id, MPC_id, name, sky) ==
  LET row == NewKeyedRow(id, sso_id, MPC_id, name, sky)
  IN  IF Dangling(d, row)
      THEN [db |-> d, out |-> Outcome("IntegrityError", None)]
      ELSE [db  |-> [d EXCEPT !.ephem = @ \cup {row}],
            out |-> Outcome("return", Some(ephem_to_model(row)))]

get_ephem(d, ephem_id) ==
  LET ephem == session_get(d.ephem, "ephem_id", ephem_id)
  IN  IF ephem = None
      THEN [db |-> d, out |-> Outcome("ValueError", None)]
      ELSE [db |-> d, out |-> Outcome("return", Some(ephem_to_model(ephem[1])))]

\* update_ephem: as in update_source, position.ra is read whatever position is.
update_ephem(d, ephem_id, sso_id, MPC_id, name, time, position, flux) ==
  LET ephem == session_get(d.ephem, "ephem_id", ephem_id)
  IN  IF ephem = None
      THEN [db |-> d, out |-> Outcome("ValueError", None)]
      ELSE IF position = None
      THEN [db |-> d, out |-> Outcome("AttributeError", None)]
      ELSE LET new == [ ephem[1] EXCEPT
                          !.sso_id   = IF sso_id # None THEN sso_id[1] ELSE @,
                          !.MPC_id   = IF MPC_id # None THEN MPC_id ELSE @,
                          !.name     = IF name # None THEN name[1] ELSE @,
                          !.time     = IF time # None THEN time[1] ELSE @,
                          !.ra_deg   = ToDeg(position[1].ra),
                          !.dec_deg  = ToDeg(position[1].dec),
                          !.flux_mJy = IF flux # None
                                       THEN Some(TomJy(flux[1])) ELSE @ ]
           IN  IF Dangling(d, new)
               THEN [db |-> d, out |-> Outcome("IntegrityError", None)]
               ELSE [db  |-> [d EXCEPT !.ephem = (@ \ {ephem[1]}) \cup {new}],
                     out |-> Outcome("return", Some(ephem_to_model(new)))]

delete_ephem(d, ephem_id) ==
  LET ephem == session_get(d.ephem, "ephem_id", ephem_id)
  IN  IF ephem = None
      THEN [db |-> d, out |-> Outcome("ValueError", None)]
      ELSE [db  |-> [d EXCEPT !.ephem = @ \ {ephem[1]}],
            out |-> Outcome("return", None)]

\* The objects create_ephem is called for: the sso_id, MPC_id and name of
\* the two objects of SsoInputs when they are stored under the keys 1 and 2.
EphemOwners ==
  { [sso_id |-> 1, name |-> "Davida", MPC_id |-> Some(511)],
    [sso_id |-> 2, name |-> "Ceres", MPC_id |-> None] }

\* The samples create_ephem is called with on the table.
SkyInputs == { s \in EphemInputs : s.time \in {0, MaxTime} }

EphemUpdates ==
  { [sso_id |-> None, MPC_id |-> None, name |-> None, time |-> Some(1),
     position |-> Some([ra |-> Q(9, "deg"), dec |-> Q(9, "deg")]),
     flux |-> None],
    [sso_id |-> Some(1), MPC_id |-> None, name |-> None, time |-> None,
     position |-> None, flux |-> None] }

CreateEphemRow(id, sso_id, who, sky) ==
  /\ TotalRows(db) < MaxRows
  /\ session_get(db.ephem, "ephem_id", id) = None
  /\ LET r == create_ephem(db, id, sso_id, who.MPC_id, who.name, sky)
     IN  db' = r.db /\ reply' = Reply("create_ephem", id, r.out)
  /\ UNCHANGED <<store, gen, cache, last, mock>>

GetEphem(id) ==
  /\ LET r == get_ephem(db, id)
     IN  db' = r.db /\ reply' = Reply("get_ephem", id, r.out)
  /\ UNCHANGED <<store, gen, cache, last, mock>>

UpdateEphem(id, args) ==
  /\ LET r == update_ephem(db, id, args.sso_id, args.MPC_id, args.name,
                           args.time, args.position, args.flux)
     IN  db' = r.db /\ reply' = Reply("update_ephem", id, r.out)
  /\ UNCHANGED <<store, gen, cache, last, mock>>

DeleteEphem(id) ==
  /\ LET r == delete_ephem(db, id)
     IN  db' = r.db /\ reply' = Reply("delete_ephem", id, r.out)
  /\ UNCHANGED <<store, gen, cache, last, mock>>

\* get_ephem_points called on the table: `id` is the object's sso_id, and
\* the value is the list delivered with the window it was asked for.
GetEphemPoints(sso_id, t_min, t_max) ==
  /\ \E ephems \in get_ephem_points(db.ephem, sso_id, t_min, t_max) :
       reply' = Reply("get_ephem_points", sso_id,
                      Outcome("return",
                              Some([t_min |-> t_min, t_max |-> t_max,
                                    ephems |-> ephems])))
  /\ UNCHANGED <<store, gen, cache, last, db, mock>>

\* ---- astroquery_services
\* AstroqueryServiceTable.to_model
service_to_model(row) ==
  [service_id |-> row.service_id, name |-> row.name, config |-> row.config]

\* create_service; id is the key the database assigns to the new row.
create_service(d, id, name, config) ==
  LET row == [service_id |-> id, name |-> name, config |-> config]
  IN  [db  |-> [d EXCEPT !.service = @ \cup {row}],
       out |-> Outcome("return", Some(service_to_model(row)))]

get_service(d, service_id) ==
  LET service == session_get(d.service, "service_id", service_id)
  IN  IF service = None
      THEN [db |-> d, out |-> Outcome("ValueError", None)]
      ELSE [db  |-> d,
            out |-> Outcome("return", Some(service_to_model(service[1])))]

update_service(d, service_id, name, config) ==
  LET service == session_get(d.service, "service_id", service_id)
  IN  IF service = None
      THEN [db |-> d, out |-> Outcome("ValueError", None)]
      ELSE LET new == [ service[1] EXCEPT
                          !.name   = IF name # None THEN name[1] ELSE @,
                          !.config = IF config # None THEN config[1] ELSE @ ]
           IN  [db  |-> [d EXCEPT !.service = (@ \ {service[1]}) \cup {new}],
                out |-> Outcome("return", Some(service_to_model(new)))]

delete_service(d, service_id) ==
  LET service == session_get(d.service, "service_id", service_id)
  IN  IF service = None
      THEN [db |-> d, out |-> Outcome("ValueError", None)]
      ELSE [db  |-> [d EXCEPT !.service = @ \ {service[1]}],
            out |-> Outcome("return", None)]

ServiceInputs == { [name |-> "Simbad", config |-> "{}"] }

ServiceUpdates == { [name |-> Some("NED"), config |-> None] }

CreateService(id, args) ==
  /\ TotalRows(db) < MaxRows
  /\ session_get(db.service, "service_id", id) = None
  /\ LET r == create_service(db, id, args.name, args.config)
     IN  db' = r.db /\ reply' = Reply("create_service", id, r.out)
  /\ UNCHANGED <<store, gen, cache, last, mock>>

GetService(id) ==
  /\ LET r == get_service(db, id)
     IN  db' = r.db /\ reply' = Reply("get_service", id, r.out)
  /\ UNCHANGED <<store, gen, cache, last, mock>>

UpdateService(id, args) ==
  /\ LET r == update_service(db, id, args.name, args.config)
     IN  db' = r.db /\ reply' = Reply("update_service", id, r.out)
  /\ UNCHANGED <<store, gen, cache, last, mock>>

DeleteService(id) ==
  /\ LET r == delete_service(db, id)
     IN  db' = r.db /\ reply' = Reply("delete_service", id, r.out)
  /\ UNCHANGED <<store, gen, cache, last, mock>>

\* --------------------------------------------------------- mock clients
\* The four in-memory clients of client/mock.py.  Each holds a dictionary
\* `catalog` (a function from the keys in use to the entries) and a counter
\* `n`.  An entry is the model object's id with its other fields, each an
\* optional value.
MockClients == {"Client", "AstorqueryClient", "SolarSystemClient", "EphemClient"}

\* Client.__init__ and its three counterparts
mock_init == [catalog |-> <<>>, n |-> 0]

NoMock == [k \in MockClients |-> mock_init]

\* catalog[key] = entry
DictSet(catalog, key, entry) ==
  [k \in DOMAIN catalog \cup {key} |-> IF k = key THEN entry ELSE catalog[k]]

\* catalog.pop(key, None), the dictionary that is left
DictPop(catalog, key) == [k \in DOMAIN catalog \ {key} |-> catalog[k]]

\* catalog.get(key, None)
DictGet(catalog, key) ==
  IF key \in DOMAIN catalog THEN Some(catalog[key]) ELSE None

\* create_source, create_service, create_sso, create_ephem: the new entry
\* takes the id n, is stored under the key n, and n is incremented.
mock_create(c, fields) ==
  LET entry == [id |-> c.n, fields |-> fields]
  IN  [client |-> [catalog |-> DictSet(c.catalog, c.n, entry), n |-> c.n + 1],
       value  |-> Some(entry)]

\* get_source, get_service, get_sso, get_ephem
mock_get(c, id) == [client |-> c, value |-> DictGet(c.catalog, id)]

\* update_source, update_service, update_sso, update_ephem: None when the
\* id is not in the catalog; otherwise the entry is replaced by one that
\* keeps the current value of each field given as None.
mock_update(c, id, fields) ==
  LET current == DictGet(c.catalog, id)
  IN  IF current = None
      THEN [client |-> c, value |-> None]
      ELSE LET new == [id     |-> current[1].id,
                       fields |-> [f \in DOMAIN fields |->
                                     IF fields[f] = None
                                     THEN current[1].fields[f]
                                     ELSE fields[f]]]
           IN  [client |-> [c EXCEPT !.catalog = DictSet(@, id, new)],
                value  |-> Some(new)]

\* delete_source, delete_service, delete_sso, delete_ephem: the entry is
\* popped and n is decremented when there was one.
mock_delete(c, id) ==
  LET check == DictGet(c.catalog, id)
  IN  [client |-> [catalog |-> DictPop(c.catalog, id),
                   n       |-> IF check # None THEN c.n - 1 ELSE c.n],
       value  |-> None]

\* The keyword arguments of the create calls of each client (create_source
\* stores the flux converted to mJy).
MockInputs(k) ==
  IF k = "Client"
  THEN { [position |-> Some(a.position), name |-> a.name,
          flux |-> IF a.flux = None THEN None
                   ELSE Some(Q(TomJy(a.flux[1]), "mJy"))] : a \in SourceInputs }
  ELSE IF k = "AstorqueryClient"
  THEN { [name |-> Some(a.name), config |-> Some(a.config)]
           : a \in ServiceInputs }
  ELSE IF k = "SolarSystemClient"
  THEN { [name |-> Some(a.name), MPC_id |-> a.MPC_id] : a \in SsoInputs }
  ELSE { [sso_id |-> Some(0), MPC_id |-> a.MPC_id, name |-> Some(a.name),
          time |-> Some(MaxTime),
          position |-> Some([ra |-> Q(1, "deg"), dec |-> Q(1, "deg")]),
          flux |-> None] : a \in SsoInputs }

\* The keyword arguments of the update calls of each client.
MockUpdates(k) ==
  IF k = "Client"
  THEN { [position |-> None, name |-> Some("M87"), flux |-> None] }
  ELSE IF k = "AstorqueryClient"
  THEN { [name |-> Some("NED"), config |-> None] }
  ELSE IF k = "SolarSystemClient"
  THEN { [name |-> None, MPC_id |-> Some(423)] }
  ELSE { [sso_id |-> None, MPC_id |-> None, name |-> None, time |-> Some(0),
          position |-> None, flux |-> None] }

\* The keys a mock client is asked about.
MockIds == 0..MaxRows

\* The counters of the four clients together.
TotalN == LET Sum[S \in SUBSET MockClients] ==
                IF S = {} THEN 0
                ELSE LET k == CHOOSE x \in S : TRUE
                     IN  mock[k].n + Sum[S \ {k}]
          IN  Sum[MockClients]

MockCreate(k, fields) ==
  /\ TotalN < MaxRows
  /\ LET r == mock_create(mock[k], fields)
     IN  /\ mock' = [mock EXCEPT ![k] = r.client]
         /\ reply' = Reply("mock_create", r.value[1].id,
                           Outcome("return", r.value))
  /\ UNCHANGED <<store, gen, cache, last, db>>

MockGet(k, id) ==
  /\ LET r == mock_get(mock[k], id)
     IN  /\ mock' = [mock EXCEPT ![k] = r.client]
         /\ reply' = Reply("mock_get", id, Outcome("return", r.value))
  /\ UNCHANGED <<store, gen, cache, last, db>>

MockUpdate(k, id, fields) ==
  /\ LET r == mock_update(mock[k], id, fields)
     IN  /\ mock' = [mock EXCEPT ![k] = r.client]
         /\ reply' = Reply("mock_update", id, Outcome("return", r.value))
  /\ UNCHANGED <<store, gen, cache, last, db>>

MockDelete(k, id) ==
  /\ LET r == mock_delete(mock[k], id)
     IN  /\ mock' = [mock EXCEPT ![k] = r.client]
         /\ reply' = Reply("mock_delete", id, Outcome("return", r.value))
  /\ UNCHANGED <<store, gen, cache, last, db>>

Init ==
  /\ store = {}
  /\ gen = [g \in Gens |-> NoGen]
  /\ cache = <<>>
  /\ last = NoCall
  /\ db = EmptyDb(FALSE)
  /\ reply = NoReply
  /\ mock = NoMock

\* One instance, of any kind and with any window, against a changing store.
Next ==
  \/ \E s \in SsoIds, sky \in EphemInputs : CreateEphem(s, sky)
  \/ \E src \in Sources, lo \in Times, hi \in Times :
       Construct(1, src, lo, hi)
  \/ \E g \in Gens : InitInterpFixed(g)
  \/ \E g \in Gens : InitInterpOther(g)
  \/ \E g \in Gens : InitInterpAwait(g)
  \/ \E g \in Gens : InitInterpResume(g)
  \/ \E g \in Gens : InitInterpFetchFails(g)
  \/ \E g \in Gens, t \in QueryTimes : AtTime(g, t, "positional")

Spec == Init /\ [][Next]_vars

\* Two instances on fixed sources, queried in both call forms: the runs in
\* which the instances meet in the cache that at_time's decorator keeps.
MemoSources ==
  { FixedSource(Q(3, "rad"), Q(1, "deg"), Some(Q(15, "Jy"))),
    FixedSource(Q(4, "deg"), Q(5, "deg"), Some(Q(6, "mJy"))) }

NextMemo ==
  \/ \E g \in Gens, src \in MemoSources, lo \in {0, 1} :
       Construct(g, src, lo, MaxTime)
  \/ \E g \in Gens : InitInterpFixed(g)
  \/ \E g \in Gens, t \in QueryTimes, form \in CallForms : AtTime(g, t, form)

SpecMemo == Init /\ [][NextMemo]_vars

\* Two instances on fixed sources, queried in the positional form only: the
\* runs in which hits, misses and evictions of both instances interleave.
NextCache ==
  \/ \E g \in Gens, src \in MemoSources, lo \in {0, 1} :
       Construct(g, src, lo, MaxTime)
  \/ \E g \in Gens : InitInterpFixed(g)
  \/ \E g \in Gens, t \in QueryTimes : AtTime(g, t, "positional")

SpecCache == Init /\ [][NextCache]_vars

\* The catalogue: the calls of the four resources on a database that
\* enforces its foreign keys or does not.
InitStore ==
  /\ store = {}
  /\ gen = [g \in Gens |-> NoGen]
  /\ cache = <<>>
  /\ last = NoCall
  /\ db \in { EmptyDb(enforce) : enforce \in BOOLEAN }
  /\ reply = NoReply
  /\ mock = NoMock

NextStore ==
  \/ \E id \in Ids, args \in SourceInputs : CreateSource(id, args)
  \/ \E id \in Ids : GetSource(id)
  \/ \E id \in Ids, args \in SourceUpdates : UpdateSource(id, args)
  \/ \E id \in Ids : DeleteSource(id)
  \/ \E id \in Ids, args \in SsoInputs : CreateSso(id, args)
  \/ \E id \in Ids : GetSso(id)
  \/ \E id \in Ids, args \in SsoUpdates : UpdateSso(id, args)
  \/ \E id \in Ids : DeleteSso(id)
  \/ \E id \in Ids, o \in EphemOwners, sky \in SkyInputs :
       CreateEphemRow(id, o.sso_id, o, sky)
  \/ \E id \in Ids : GetEphem(id)
  \/ \E id \in Ids, args \in EphemUpdates : UpdateEphem(id, args)
  \/ \E id \in Ids : DeleteEphem(id)
  \/ \E o \in EphemOwners, t_min \in {0, 1}, t_max \in {1, MaxTime} :
       GetEphemPoints(o.sso_id, t_min, t_max)
  \/ \E id \in Ids, args \in ServiceInputs : CreateService(id, args)
  \/ \E id \in Ids : GetService(id)
  \/ \E id \in Ids, args \in ServiceUpdates : UpdateService(id, args)
  \/ \E id \in Ids : DeleteService(id)

SpecStore == InitStore /\ [][NextStore]_vars

\* The mock clients.
NextMock ==
  \/ \E k \in MockClients : \E fields \in MockInputs(k) : MockCreate(k, fields)
  \/ \E k \in MockClients, id \in MockIds : MockGet(k, id)
  \/ \E k \in MockClients, id \in MockIds :
       \E fields \in MockUpdates(k) : MockUpdate(k, id, fields)
  \/ \E k \in MockClients, id \in MockIds : MockDelete(k, id)

SpecMock == Init /\ [][NextMock]_vars

\* ------------------------------------------------------------ properties
\* The instance has an interpolation function (the Ready state).
Ready(g) == gen[g].interp # NoInterp

\* The last finished call is an at_time call on an instance of this type.
AtTimeOn(type) ==
  /\ last.op = "at_time"
  /\ gen[last.g].source.type = type

\* The magnitudes of a value at_time returned.
Magnitudes(v) == [ra |-> v.ra.value, dec |-> v.dec.value, flux |-> v.flux.value]

\* The straight line through (t0, y0) and (t1, y1), at t.
Linear(t0, y0, t1, y1, t) == Rat(y0 * (t1 - t0) + (y1 - y0) * (t - t0), t1 - t0)

\* The linear interpolation between the samples a and b, at t.
Between(a, b, t) ==
  [ra   |-> Linear(a.time, a.ra.value, b.time, b.ra.value, t),
   dec  |-> Linear(a.time, a.dec.value, b.time, b.dec.value, t),
   flux |-> Linear(a.time, a.flux[1].value, b.time, b.flux[1].value, t)]

\* C1: at_time on an instance none of whose init_interp calls has returned
\* raises the uninitialized error (RuntimeError) and gives no value, for
\* every t and for both source kinds.
C1_UninitializedRaises ==
  (last.op = "at_time" /\ ~gen[last.g].returned)
    => (last.how = "RuntimeError" /\ last.value = None)

\* An at_time call made while the first init_interp of a moving source is
\* suspended at its fetch has raised the uninitialized error.
C1_Witness ==
  /\ AtTimeOn("SolarSystemSource")
  /\ gen[last.g].pc = "await"
  /\ gen[last.g].inits = 0
  /\ last.how = "RuntimeError"

\* C2: on a Ready instance at_time(t) raises the out-of-range error
\* (ValueError) exactly when t < t_min or t > t_max, and returns a value for
\* every other t, t_min and t_max included.
C2_RangeCheck ==
  (last.op = "at_time" /\ Ready(last.g))
    => IF last.t < gen[last.g].t_min \/ last.t > gen[last.g].t_max
       THEN last.how = "ValueError" /\ last.value = None
       ELSE last.how = "return" /\ last.value # None

\* at_time(t_max) has returned a value on a moving source with t_min < t_max.
C2_Witness ==
  /\ AtTimeOn("SolarSystemSource")
  /\ Ready(last.g)
  /\ gen[last.g].t_min < gen[last.g].t_max
  /\ last.t = gen[last.g].t_max
  /\ last.how = "return"

\* C3: on a fixed source, after init_interp, at_time(t) for every t in
\* [t_min, t_max] returns the source's own ra, dec and flux magnitudes in
\* the source's own units, whatever t.
C3_FixedSourceConstant ==
  (AtTimeOn("ExtragalacticSource") /\ Ready(last.g)
     /\ gen[last.g].t_min <= last.t /\ last.t <= gen[last.g].t_max)
    => LET src == gen[last.g].source
       IN  last.value =
             Some([ra   |-> Q(RatInt(src.position[1].ra.value),
                              src.position[1].ra.unit),
                   dec  |-> Q(RatInt(src.position[1].dec.value),
                              src.position[1].dec.unit),
                   flux |-> Q(RatInt(src.flux[1].value), src.flux[1].unit)])

\* A fixed source has answered a query strictly inside its window.
C3_Witness ==
  /\ AtTimeOn("ExtragalacticSource")
  /\ last.how = "return"
  /\ gen[last.g].t_min < last.t /\ last.t < gen[last.g].t_max

SampleMagnitudes(e) ==
  [ra   |-> RatInt(e.ra.value),
   dec  |-> RatInt(e.dec.value),
   flux |-> RatInt(e.flux[1].value)]

\* C5: on a moving source initialised by its one init_interp call, at_time
\* at exactly the time of a fetched sample (the first and the last included)
\* returns that sample's own ra, dec and flux magnitudes.
C5_SampleTimeExact ==
  (AtTimeOn("SolarSystemSource") /\ last.how = "return"
     /\ gen[last.g].inits = 1)
    => LET e == gen[last.g].ephems
       IN  \A i \in 1..Len(e) :
             e[i].time = last.t
               => Magnitudes(last.value[1]) = SampleMagnitudes(e[i])

\* The cache holds a result of at_time(t) for instance g.
Memoized(g, t) ==
  \E i \in 1..Len(cache) : cache[i].key[1] = g /\ cache[i].key[3] = t

\* C6: on a Ready instance, an at_time(t) made while the cache still holds
\* the result of an earlier successful at_time(t) on the same instance does
\* not evaluate the interpolation function again and returns that result.
C6_RepeatIsMemoized ==
  [][\A g \in Gens, t \in QueryTimes, form \in CallForms :
       (AtTime(g, t, form) /\ Ready(g) /\ Memoized(g, t))
         => /\ ~last'.evaluated
            /\ \A i \in 1..Len(cache) :
                 (cache[i].key[1] = g /\ cache[i].key[3] = t)
                   => last'.value = cache[i].value]_vars

\* C7: an init_interp call that returns without raising leaves the instance
\* Ready, and a first init_interp call that raises leaves it Uninitialized,
\* whatever source the instance was constructed on.
C7_NoPartialSuccess ==
  (last.op = "init_interp")
    => /\ (last.how = "return") => Ready(last.g)
       /\ (last.how # "return" /\ gen[last.g].inits = 1) => ~Ready(last.g)

\* C8: a first init_interp call on a moving source whose fetch delivered
\* fewer than two samples raises and leaves the instance Uninitialized, and
\* no instance ever holds a spline built from fewer than two samples.
C8_FewerThanTwoSamplesFails ==
  /\ (last.op = "init_interp" /\ last.fetched # None
        /\ Len(last.fetched[1]) < 2 /\ gen[last.g].inits = 1)
       => (last.how # "return" /\ ~Ready(last.g))
  /\ \A g \in Gens :
       gen[g].interp.f = "BSpline" => Len(gen[g].interp.c) >= 2

\* C9: Ready is terminal: no step (an at_time call that returns or raises,
\* an init_interp call that returns or raises, a change of the store) takes
\* a Ready instance back to Uninitialized.
C9_ReadyIsTerminal ==
  [][\A g \in Gens : Ready(g) => Ready(g)']_vars

\* A Ready moving-source instance whose second init_interp call was given
\* the samples in an order the spline construction rejects.
C9_Witness ==
  /\ last.op = "init_interp"
  /\ last.how = "ValueError"
  /\ gen[last.g].inits = 2
  /\ Ready(last.g)

\* C10: after SourceGenerator(source, t_min, t_max), until the next call on
\* the instance ends, the instance has no interpolation function, holds the
\* source, t_min and t_max it was given, and the constructor has called the
\* record store zero times.
C10_ConstructionIsInert ==
  (last.op = "__init__")
    => /\ ~Ready(last.g)
       /\ gen[last.g].source = last.given[1].source
       /\ gen[last.g].t_min = last.given[1].t_min
       /\ gen[last.g].t_max = last.given[1].t_max
       /\ last.fetches = 0

\* A moving-source instance has just been constructed with t_min > t_max,
\* while the store already holds a row.
C10_Witness ==
  /\ last.op = "__init__"
  /\ gen[last.g].source.type = "SolarSystemSource"
  /\ last.given[1].t_min > last.given[1].t_max
  /\ store # {}

\* C11: at_time on an instance without an interpolation function, asked for
\* a t outside [t_min, t_max], raises the uninitialized error (RuntimeError),
\* not the out-of-range error.
C11_InitCheckFirst ==
  (last.op = "at_time" /\ ~Ready(last.g) /\ OutOfBounds(gen[last.g], last.t))
    => last.how = "RuntimeError"

\* at_time(t) with t > t_max has raised RuntimeError on a fixed source that
\* was constructed and never initialised.
C11_Witness ==
  /\ AtTimeOn("ExtragalacticSource")
  /\ gen[last.g].inits = 0
  /\ last.t > gen[last.g].t_max
  /\ last.how = "RuntimeError"

\* The attributes of an instance that the class itself has.
Attributes(self) ==
  [source |-> self.source, t_min |-> self.t_min, t_max |-> self.t_max,
   interp |-> self.interp, ra_unit |-> self.ra_unit,
   dec_unit |-> self.dec_unit, flux_unit |-> self.flux_unit]

\* C12: when get_ephem_points raises during init_interp, init_interp ends
\* raising that same error, the store was called exactly once (no retry),
\* and every attribute of the instance is what it was before the call.
C12_FetchFailurePropagates ==
  [][\A g \in Gens :
       InitInterpFetchFails(g)
         => /\ last'.op = "init_interp" /\ last'.g = g
            /\ last'.how = "StoreError"
            /\ last'.fetches = 1
            /\ Attributes(gen'[g]) = Attributes(gen[g])
            /\ store' = store]_vars

\* The fetch of a second init_interp has failed on an instance that the
\* first one made Ready from two samples.
C12_Witness ==
  /\ last.op = "init_interp"
  /\ last.how = "StoreError"
  /\ gen[last.g].inits = 2
  /\ Len(gen[last.g].ephems) = 2

\* C13: an at_time call on an instance b removes or alters nothing that is
\* memoized for another instance a: every cache entry of a is still held,
\* unchanged, after the call.
C13_CachePerInstance ==
  [][\A a \in Gens, b \in Gens, t \in QueryTimes, form \in CallForms :
       (a # b /\ AtTime(b, t, form))
         => \A i \in 1..Len(cache) :
              cache[i].key[1] = a
                => \E j \in 1..Len(cache') : cache'[j] = cache[i]]_vars

\* C15: the list of samples that get_ephem_points delivers to init_interp
\* is in ascending order of time, in whatever order the rows were created.
C15_FetchedInTimeOrder ==
  (last.op = "init_interp" /\ last.fetched # None)
    => \A i \in 1..(Len(last.fetched[1]) - 1) :
         last.fetched[1][i].time <= last.fetched[1][i + 1].time

\* C20: every value at_time returns on a moving source initialised by its
\* one init_interp call, from two or more samples, is for a t between the
\* earliest and the latest sample the spline was built from.
C20_NeverExtrapolates ==
  (AtTimeOn("SolarSystemSource") /\ last.how = "return"
     /\ gen[last.g].inits = 1 /\ Len(gen[last.g].ephems) >= 2)
    => LET e == gen[last.g].ephems
       IN  /\ \E i \in 1..Len(e) : e[i].time <= last.t
           /\ \E i \in 1..Len(e) : last.t <= e[i].time

\* The stored ephemeris points an answer of get_ephem_points has to hold:
\* those of the object asked for whose time is in the closed window.
Wanted ==
  { e \in db.ephem : /\ e.sso_id = reply.id
                     /\ reply.value[1].t_min <= e.time
                     /\ e.time <= reply.value[1].t_max }

\* C14: get_ephem_points(source, t_min, t_max) returns exactly the stored
\* points of the given object with t_min <= time <= t_max, both ends
\* included: every such point is in the list as often as it is stored, and
\* the list holds nothing else.
C14_ExactlyTheWindow ==
  reply.op = "get_ephem_points"
    => LET ephems == reply.value[1].ephems
       IN  /\ Len(ephems) = Cardinality(Wanted)
           /\ \A e \in Wanted :
                Cardinality({ i \in 1..Len(ephems) : ephems[i] = to_model(e) })
                  = Cardinality({ w \in Wanted : to_model(w) = to_model(e) })
           /\ \A i \in 1..Len(ephems) :
                /\ ephems[i].sso_id = reply.id
                /\ reply.value[1].t_min <= ephems[i].time
                /\ ephems[i].time <= reply.value[1].t_max

\* An answer that holds a point at the lower end of the window and leaves
\* out a stored point.
C14_Witness ==
  /\ reply.op = "get_ephem_points"
  /\ \E i \in 1..Len(reply.value[1].ephems) :
       reply.value[1].ephems[i].time = reply.value[1].t_min
  /\ reply.value[1].t_min < reply.value[1].t_max
  /\ Cardinality(db.ephem) > Len(reply.value[1].ephems)

\* The get, update and delete calls, each with its table and primary key.
ByIdCalls ==
  { [op |-> verb \o "_" \o r.noun, table |-> r.table, pk |-> r.noun \o "_id"]
      : verb \in {"get", "update", "delete"},
        r \in { [noun |-> "source", table |-> "fixed"],
                [noun |-> "sso", table |-> "sso"],
                [noun |-> "ephem", table |-> "ephem"],
                [noun |-> "service", table |-> "service"] } }

\* C16: for each of the four resources, get, update and delete called with
\* an id that is not in its table fail with the not-found error (ValueError,
\* HTTP 404) and leave the database unchanged.
C16_AbsentIdNotFound ==
  [][\A c \in ByIdCalls :
       (reply'.op = c.op /\ session_get(db[c.table], c.pk, reply'.id) = None)
         => /\ reply'.how = "ValueError" /\ reply'.status = 404
            /\ db' = db]_vars

\* An update of a solar-system object under an id that is not in its table,
\* while the table holds another object.
C16_Witness ==
  /\ reply.op = "update_sso" /\ reply.how = "ValueError" /\ reply.status = 404
  /\ db.sso # {}
  /\ session_get(db.sso, "sso_id", reply.id) = None

\* The source a get delivered has the position, flux and name that
\* create_source was called with (magnitudes compared in deg and mJy).
AsCreated(source, args) ==
  /\ ToDeg(source.position.ra) = ToDeg(args.position.ra)
  /\ ToDeg(source.position.dec) = ToDeg(args.position.dec)
  /\ (source.flux = None) = (args.flux = None)
  /\ source.flux # None => TomJy(source.flux[1]) = TomJy(args.flux[1])
  /\ source.name = args.name

\* C17: a get of a source id that was deleted and not returned by a create
\* since reports not found (ValueError, HTTP 404); a get of an id that a
\* create returned, the source not updated or deleted since, returns the
\* created position, flux and name.
C17_DeletedStaysGone ==
  reply.op = "get_source"
    => /\ reply.id \in db.deleted
            => reply.how = "ValueError" /\ reply.status = 404
       /\ \A c \in db.given :
            c.source_id = reply.id
              => /\ reply.how = "return" /\ reply.status = 200
                 /\ reply.value[1].source_id = reply.id
                 /\ AsCreated(reply.value[1], c.args)

\* A get of a deleted id that reports not found while the table holds
\* another source.
C17_Witness ==
  /\ reply.op = "get_source" /\ reply.id \in db.deleted
  /\ reply.how = "ValueError"
  /\ db.fixed # {}

\* C18: deleting a solar-system object cascades to its ephemeris points:
\* when delete_sso(sso_id) has succeeded, get_ephem raises the not-found
\* ValueError for every ephemeris point whose sso_id was that object.
C18_DeleteCascades ==
  [][\A id \in Ids :
       (DeleteSso(id) /\ reply'.how = "return")
         => \A e \in db.ephem :
              e.sso_id = id
                => get_ephem(db', e.ephem_id).out.how = "ValueError"]_vars

\* C19: in every mock client, after any sequence of create, update and
\* delete calls, n equals the number of entries in the catalog dictionary.
C19_CounterIsSize ==
  \A k \in MockClients : mock[k].n = Cardinality(DOMAIN mock[k].catalog)

\* The entries a cache holds, whatever their order.
Entries(c) == { c[i] : i \in 1..Len(c) }

\* C21: the memoization cache is bounded: whatever at_time queries are made,
\* on whatever instances, it never holds more results than its capacity; and
\* the entry a miss on a full cache drops is the least recently used one:
\* the oldest of the recency order, never the entry the preceding call used.
C21_BoundedLru ==
  [][/\ Len(cache') <= maxsize
     /\ (last' # last /\ last'.op = "at_time" /\ last'.how = "return")
          => LET key == make_key(last'.g, last'.t, last'.form)
                 new == [key |-> key, value |-> last'.value]
             IN  IF CacheIndex(cache, key) # 0
                 THEN Entries(cache') = Entries(cache)
                 ELSE IF Len(cache) < maxsize
                 THEN Entries(cache') = Entries(cache) \cup {new}
                 ELSE /\ Entries(cache') = (Entries(cache) \ {cache[1]})
                                             \cup {new}
                      /\ \A i \in 2..Len(cache) : cache'[i - 1] = cache[i]
                      /\ (last.op = "at_time" /\ last.how = "return")
                           => cache[1].key
                                # make_key(last.g, last.t, last.form)
    ]_vars

\* A miss on one instance has made the full cache drop an entry of the
\* other instance.
C21_Witness ==
  /\ last.op = "at_time" /\ last.evicted # None
  /\ last.evicted[1][1] # last.g
  /\ Len(cache) = maxsize

\* C22: an at_time call, whether it returns or raises, leaves source, t_min,
\* t_max, the interpolation function and the three units of every instance
\* as they were (and the record store too); and no step on a constructed
\* instance, init_interp included, changes its source, t_min or t_max.
C22_AtTimeFrame ==
  [][\A g \in Gens :
       /\ (last' # last /\ last'.op = "at_time")
            => (Attributes(gen'[g]) = Attributes(gen[g]) /\ store' = store)
       /\ gen[g].made
            => /\ gen'[g].source = gen[g].source
               /\ gen'[g].t_min = gen[g].t_min
               /\ gen'[g].t_max = gen[g].t_max]_vars

\* An at_time call has raised the out-of-range error on a moving source
\* after more than one init_interp call, on a window that starts above 0.
C22_Witness ==
  /\ AtTimeOn("SolarSystemSource")
  /\ last.how = "ValueError"
  /\ gen[last.g].inits = 2
  /\ gen[last.g].t_min > 0

\* The units of a value at_time returned.
Units(v) == [ra |-> v.ra.unit, dec |-> v.dec.unit, flux |-> v.flux.unit]

\* C23: every value at_time returns carries the units captured at
\* initialization: on a fixed source the units of the source's own ra, dec
\* and flux; on a moving source the ra, dec and flux units of the last
\* sample of the fetched list.
C23_UnitsAsCaptured ==
  (last.op = "at_time" /\ last.how = "return")
    => LET self == gen[last.g]
       IN  /\ Units(last.value[1])
                = [ra |-> self.ra_unit, dec |-> self.dec_unit,
                   flux |-> self.flux_unit]
           /\ self.source.type = "ExtragalacticSource"
                => Units(last.value[1])
                     = [ra   |-> self.source.position[1].ra.unit,
                        dec  |-> self.source.position[1].dec.unit,
                        flux |-> self.source.flux[1].unit]
           /\ self.source.type = "SolarSystemSource"
                => LET e == self.ephems[Len(self.ephems)]
                   IN  Units(last.value[1])
                         = [ra |-> e.ra.unit, dec |-> e.dec.unit,
                            flux |-> e.flux[1].unit]

\* A value interpolated between two samples of a moving source.
C23_Witness ==
  /\ AtTimeOn("SolarSystemSource")
  /\ last.how = "return"
  /\ last.evaluated
  /\ Len(gen[last.g].ephems) = 2
  /\ Units(last.value[1]) = [ra |-> "deg", dec |-> "deg", flux |-> "mJy"]

\* C24: an update of an existing record succeeds whatever fields are given
\* as None (a position of None included), keeps the record under its id,
\* and leaves the stored ra and dec as they were when position is None:
\* stated for update_source and update_ephem, over every step that records
\* such a call on an id that has a row.
C24_UpdateKeepsNoneFields ==
  [][\A c \in { [op |-> "update_source", table |-> "fixed", pk |-> "source_id"],
                [op |-> "update_ephem", table |-> "ephem", pk |-> "ephem_id"] } :
       (reply' # reply /\ reply'.op = c.op
          /\ session_get(db[c.table], c.pk, reply'.id) # None)
         => /\ reply'.how = "return"
            /\ session_get(db'[c.table], c.pk, reply'.id) # None
            /\ reply'.value[1][c.pk] = reply'.id]_vars

\* C25: an init_interp call on a moving object (a SolarSystemSource, the
\* row class derived from it included) has issued exactly one
\* get_ephem_points call, asking for the instance's own object and window;
\* one on a fixed source has issued none; an at_time call has issued none.
C25_OneFetchPerInit ==
  /\ last.op = "at_time" => last.fetches = 0
  /\ last.op = "init_interp"
       => LET self == gen[last.g]
          IN  IF self.source.type = "ExtragalacticSource"
              THEN last.fetches = 0
              ELSE /\ last.fetches = 1
                   /\ last.fetched # None
                        => \A i \in 1..Len(last.fetched[1]) :
                             /\ last.fetched[1][i].sso_id = self.source.sso_id
                             /\ self.t_min <= last.fetched[1][i].time
                             /\ last.fetched[1][i].time <= self.t_max

\* What a positional at_time(t) on instance g gives when the cache is c and
\* the instance is self: the memoized value on a hit, else what the body
\* gives.
AtTimeResult(c, self, g, t) ==
  LET i == CacheIndex(c, make_key(g, t, "positional"))
  IN  IF i # 0 THEN { Outcome("return", c[i].value) } ELSE at_time(self, t)

C27_FailuresNotMemoized ==
  /\ \A i \in 1..Len(cache) :
       /\ cache[i].value # None
       /\ Ready(cache[i].key[1])
       /\ ~OutOfBounds(gen[cache[i].key[1]], cache[i].key[3])
  /\ (last.op = "at_time" /\ Ready(last.g))
       => IF OutOfBounds(gen[last.g], last.t)
          THEN last.how = "ValueError" /\ ~Memoized(last.g, last.t)
          ELSE last.how = "return" /\ Memoized(last.g, last.t)
  /\ (last.op = "at_time" /\ last.how # "return")
       => ~Memoized(last.g, last.t)

\* An out-of-range query has raised on an instance for which the cache
\* holds a value of another time.
C27_Witness ==
  /\ last.op = "at_time" /\ last.how = "ValueError"
  /\ \E i \in 1..Len(cache) : cache[i].key[1] = last.g
  /\ ~Memoized(last.g, last.t)

\* C28: memoization is transparent: on an instance exactly one init_interp
\* call of which has ended, what at_time(t) gives, hit or miss, is what the
\* body of at_time gives on that instance without any cache, whatever
\* queries on this and on other instances came before.
C28_MemoizationTransparent ==
  (last.op = "at_time" /\ gen[last.g].inits = 1)
    => Outcome(last.how, last.value) \in at_time(gen[last.g], last.t)

\* A hit on one instance while the cache also holds a value of the other
\* instance for the same time.
C28_Witness ==
  /\ last.op = "at_time" /\ last.how = "return" /\ ~last.evaluated
  /\ gen[last.g].inits = 1
  /\ \E i \in 1..Len(cache) :
       cache[i].key[1] # last.g /\ cache[i].key[3] = last.t

\* C29: at_time(t) on an instance that has an interpolation function gives
\* what the function installed now gives at t, with the bounds applied,
\* also after a further init_interp call on the instance.
C29_FollowsInstalledInterpolant ==
  (last.op = "at_time" /\ Ready(last.g))
    => Outcome(last.how, last.value) \in at_time(gen[last.g], last.t)

\* C30: in the mock clients a create never replaces an existing entry:
\* every entry a catalog holds before a create call is still held after it,
\* under the same id and with the same data.
C30_CreateNeverReplaces ==
  [][(mock' # mock /\ reply'.op = "mock_create")
       => \A k \in MockClients :
            \A id \in DOMAIN mock[k].catalog :
              /\ id \in DOMAIN mock'[k].catalog
              /\ mock'[k].catalog[id] = mock[k].catalog[id]]_vars
====
